---- MODULE Spec2Model ----
(***************************************************************************)
(* Model of the prediction gateway of diabetes_prediction_app.py: the      *)
(* /predict handler with validate_input_data, build_dataframe_from_request *)
(* and score_model, one request at a time.  JSON values, Python floats,    *)
(* exceptions and the outbound HTTP call are modelled by what the code     *)
(* does with them.                                                         *)
(***************************************************************************)
EXTENDS Integers, Sequences, FiniteSets, TLC

VARIABLES
    MODEL_FEATURES,      \* Config.MODEL_FEATURES: the ordered feature list
    jsonErrorIsRequestException,
                         \* whether the installed requests raises its own
                         \* JSONDecodeError (a RequestException) from .json()
    pc,                  \* "idle" | "awaiting" (requests.post outstanding) | "done"
    request,             \* the request body handed to /predict
    posts,               \* calls of requests.post made for this request
    payload,             \* data_dict of score_model, as sent upstream
    upstream,            \* what the outbound call came back with
    response             \* what /predict returned

vars == <<MODEL_FEATURES, jsonErrorIsRequestException, pc, request, posts,
          payload, upstream, response>>

----------------------------------------------------------------------------
(* Bounds of the model *)

MaxFeatures == 2

FeatureNames == {"age", "income", "bmi"}
ExtraKey == "zip"
Keys == FeatureNames \cup {ExtraKey}

(* The characters of a key, for Python's substring test  f in "..." *)
Chars(name) ==
    CASE name = "age"    -> <<"a", "g", "e">>
      [] name = "income" -> <<"i", "n", "c", "o", "m", "e">>
      [] name = "bmi"    -> <<"b", "m", "i">>
      [] OTHER           -> <<"z", "i", "p">>

----------------------------------------------------------------------------
(* Python floats *)

Fin(n) == [k |-> "fin", n |-> n]
NaN    == [k |-> "nan", n |-> 0]
Inf(s) == [k |-> "inf", n |-> s]

IsFinite(f) == f.k = "fin"

(* JSON values as Python objects *)

Null      == [t |-> "null"]
JBool(b)  == [t |-> "bool", b |-> b]
JInt(i)   == [t |-> "int", i |-> i]
BigInt    == [t |-> "bigint"]          \* an int literal beyond the float range
JFloat(f) == [t |-> "float", f |-> f]
JStr(s)   == [t |-> "str", s |-> s]    \* s: a sequence of characters
JList(l)  == [t |-> "list", items |-> l]
JDict(m)  == [t |-> "dict", m |-> m]   \* m: a function from keys to values
EmptyMap  == [key \in {} |-> Null]

(* Outcome of evaluating a Python expression: a value or a raised exception *)
Ret(v)          == [raised |-> FALSE, value |-> v]
Raise(cls, msg) == [raised |-> TRUE, cls |-> cls, msg |-> msg]

(* The text of a message, with the values formatted into it *)
Msg(text, names, status, body) ==
    [text |-> text, names |-> names, status |-> status, body |-> body]
Text(text) == Msg(text, <<>>, 0, "")

----------------------------------------------------------------------------
(* float(x) *)

Digits == {"0", "1", "2", "3", "4", "5", "6", "7", "8", "9"}
DigitVal(c) ==
    CASE c = "0" -> 0 [] c = "1" -> 1 [] c = "2" -> 2 [] c = "3" -> 3
      [] c = "4" -> 4 [] c = "5" -> 5 [] c = "6" -> 6 [] c = "7" -> 7
      [] c = "8" -> 8 [] OTHER -> 9

Lower(c) ==
    CASE c = "N" -> "n" [] c = "A" -> "a" [] c = "I" -> "i" [] c = "F" -> "f"
      [] c = "T" -> "t" [] c = "Y" -> "y" [] OTHER -> c
LowerAll(s) == [i \in 1..Len(s) |-> Lower(s[i])]

RECURSIVE LStrip(_)
LStrip(s) == IF s # <<>> /\ Head(s) = " " THEN LStrip(Tail(s)) ELSE s
RECURSIVE RStrip(_)
RStrip(s) ==
    IF s # <<>> /\ s[Len(s)] = " " THEN RStrip(SubSeq(s, 1, Len(s) - 1)) ELSE s
Strip(s) == RStrip(LStrip(s))

RECURSIVE DecimalValue(_)
DecimalValue(s) ==
    IF s = <<>> THEN 0
    ELSE 10 * DecimalValue(SubSeq(s, 1, Len(s) - 1)) + DigitVal(s[Len(s)])

(* float of a string: surrounding blanks stripped, an optional sign, then  *)
(* decimal digits or one of nan / inf / infinity in any case.  (Fractions  *)
(* and exponents are outside the model's alphabet.)                         *)
float_str(s) ==
    LET t    == Strip(s)
        neg  == t # <<>> /\ Head(t) = "-"
        sgn  == t # <<>> /\ Head(t) \in {"-", "+"}
        body == IF sgn THEN Tail(t) ELSE t
        low  == LowerAll(body)
    IN  IF body # <<>> /\ \A i \in 1..Len(body) : body[i] \in Digits
        THEN Ret(Fin(IF neg THEN 0 - DecimalValue(body) ELSE DecimalValue(body)))
        ELSE IF low = <<"n", "a", "n">>
        THEN Ret(NaN)
        ELSE IF low \in {<<"i", "n", "f">>,
                         <<"i", "n", "f", "i", "n", "i", "t", "y">>}
        THEN Ret(Inf(IF neg THEN 0 - 1 ELSE 1))
        ELSE Raise("ValueError", Text("could not convert string to float"))

float(x) ==
    CASE x.t = "int"    -> Ret(Fin(x.i))
      [] x.t = "bigint" -> Raise("OverflowError", Text("int too large to convert to float"))
      [] x.t = "float"  -> Ret(x.f)
      [] x.t = "bool"   -> Ret(Fin(IF x.b THEN 1 ELSE 0))
      [] x.t = "str"    -> float_str(x.s)
      [] OTHER          -> Raise("TypeError", Text("float() argument must be a string or a real number"))

----------------------------------------------------------------------------
(* Python operators on JSON values *)

(* bool(x): None, False, 0, 0.0 and empty containers are falsy *)
Truthy(x) ==
    CASE x.t = "null"   -> FALSE
      [] x.t = "bool"   -> x.b
      [] x.t = "int"    -> x.i # 0
      [] x.t = "float"  -> x.f # Fin(0)
      [] x.t = "str"    -> x.s # <<>>
      [] x.t = "list"   -> x.items # <<>>
      [] x.t = "dict"   -> DOMAIN x.m # {}
      [] OTHER          -> TRUE

IsSubstring(p, s) ==
    \E i \in 0..(Len(s) - Len(p)) : SubSeq(s, i + 1, i + Len(p)) = p

(* key in x *)
Contains(x, key) ==
    CASE x.t = "dict" -> Ret(key \in DOMAIN x.m)
      [] x.t = "list" -> Ret(\E i \in 1..Len(x.items) : x.items[i] = JStr(Chars(key)))
      [] x.t = "str"  -> Ret(IsSubstring(Chars(key), x.s))
      [] OTHER        -> Raise("TypeError", Text("argument is not iterable"))

(* x[key] for a string key *)
GetItem(x, key) ==
    CASE x.t = "dict" ->
            IF key \in DOMAIN x.m THEN Ret(x.m[key])
            ELSE Raise("KeyError", Text("key"))
      [] x.t \in {"list", "str"} ->
            Raise("TypeError", Text("indices must be integers"))
      [] OTHER -> Raise("TypeError", Text("object is not subscriptable"))

(* x[0] *)
Index0(x) ==
    CASE x.t = "list" ->
            IF x.items # <<>> THEN Ret(x.items[1])
            ELSE Raise("IndexError", Text("list index out of range"))
      [] x.t = "str" ->
            IF x.s # <<>> THEN Ret(JStr(<<x.s[1]>>))
            ELSE Raise("IndexError", Text("string index out of range"))
      [] x.t = "dict" -> Raise("KeyError", Text("0"))
      [] OTHER -> Raise("TypeError", Text("object is not subscriptable"))

----------------------------------------------------------------------------
(* Configuration (config.py): the schema and the per-feature defaults *)

RECURSIVE SeqsOver(_, _)
SeqsOver(S, n) ==
    IF n = 0 THEN {<<>>}
    ELSE LET shorter == SeqsOver(S, n - 1)
         IN  shorter \cup {Append(q, x) : q \in {r \in shorter : Len(r) = n - 1},
                                          x \in S}

Injective(q) == \A i, j \in 1..Len(q) : q[i] = q[j] => i = j

(* Ordered feature sets of 1..MaxFeatures names *)
Schemas == {q \in SeqsOver(FeatureNames, MaxFeatures) : q # <<>> /\ Injective(q)}

(* Config.DEFAULT_VALUES *)
DEFAULT_VALUES == [age |-> JInt(50), income |-> JFloat(Fin(0))]

----------------------------------------------------------------------------
(* validate_input_data *)

Invalid(feature) == Msg("Invalid value for feature: must be a number", <<feature>>, 0, "")

RECURSIVE check_values(_, _)
check_values(data, features) ==
    IF features = <<>> THEN Ret([is_valid |-> TRUE, error_message |-> Text("")])
    ELSE LET feature == Head(features)
             item    == GetItem(data, feature)
             number  == IF item.raised THEN item ELSE float(item.value)
         IN  IF ~number.raised THEN check_values(data, Tail(features))
             ELSE IF number.cls \in {"ValueError", "TypeError"}
             THEN Ret([is_valid |-> FALSE, error_message |-> Invalid(feature)])
             ELSE number

(* Variant: stops at the first missing feature instead of collecting all *)
validate_first_missing_only(data, required_features) ==
    IF required_features # <<>> /\ Contains(data, Head(required_features)).raised
    THEN Contains(data, Head(required_features))
    ELSE LET missing_features ==
                 SelectSeq(required_features, LAMBDA f : ~Contains(data, f).value)
         IN  IF missing_features # <<>>
             THEN Ret([is_valid |-> FALSE,
                       error_message |-> Msg("Missing required features",
                                             <<Head(missing_features)>>, 0, "")])
             ELSE check_values(data, required_features)

validate_input_data(data, required_features) ==
    IF required_features # <<>> /\ Contains(data, Head(required_features)).raised
    THEN Contains(data, Head(required_features))
    ELSE LET missing_features ==
                 SelectSeq(required_features, LAMBDA f : ~Contains(data, f).value)
         IN  IF missing_features # <<>>
             THEN Ret([is_valid |-> FALSE,
                       error_message |-> Msg("Missing required features",
                                             missing_features, 0, "")])
             ELSE check_values(data, required_features)

----------------------------------------------------------------------------
(* build_dataframe_from_request *)

(* Variant: a configured default wins over the record's own value *)
get_default_first(data, feature) ==
    IF data.t # "dict" THEN Raise("AttributeError", Text("object has no attribute 'get'"))
    ELSE IF feature \in DOMAIN DEFAULT_VALUES THEN Ret(DEFAULT_VALUES[feature])
    ELSE IF feature \in DOMAIN data.m THEN Ret(data.m[feature])
    ELSE Ret(JFloat(Fin(0)))

(* data.get(feature, Config.DEFAULT_VALUES.get(feature, 0.0)) *)
get_with_default(data, feature) ==
    IF data.t # "dict" THEN Raise("AttributeError", Text("object has no attribute 'get'"))
    ELSE IF feature \in DOMAIN data.m THEN Ret(data.m[feature])
    ELSE IF feature \in DOMAIN DEFAULT_VALUES THEN Ret(DEFAULT_VALUES[feature])
    ELSE Ret(JFloat(Fin(0)))

feature_value(data, feature) ==
    LET v == get_with_default(data, feature)
    IN  IF v.raised THEN v ELSE float(v.value)

(* pd.DataFrame([feature_dict]) in split orientation: one row, index 0 *)
build_dataframe_from_request(data, features) ==
    LET cells == [i \in 1..Len(features) |-> feature_value(data, features[i])]
        bad   == {i \in 1..Len(features) : cells[i].raised}
    IN  IF bad # {}
        THEN cells[CHOOSE i \in bad : \A j \in bad : i <= j]
        ELSE Ret([columns |-> features,
                  index   |-> <<0>>,
                  data    |-> << [i \in 1..Len(features) |-> cells[i].value] >>])

----------------------------------------------------------------------------
(* score_model *)

HTTP_OK == 200

(* json.dumps(data_dict, allow_nan): non-finite floats are written as NaN / *)
(* Infinity when allow_nan, refused otherwise                               *)
json_dumps(data_dict, allow_nan) ==
    LET row == data_dict.dataframe_split.data[1]
    IN  IF ~allow_nan /\ \E i \in 1..Len(row) : ~IsFinite(row[i])
        THEN Raise("ValueError", Text("Out of range float values are not JSON compliant"))
        ELSE Ret(data_dict)

(* Variant: json.dumps with allow_nan=False *)
score_model_body_strict(dataset) ==
    json_dumps([dataframe_split |-> dataset], FALSE)

(* lines 47-49: the body handed to requests.post *)
score_model_body(dataset) ==
    json_dumps([dataframe_split |-> dataset], TRUE)

(* What requests.post can come back with *)
TimeoutOutcome    == [kind |-> "Timeout"]
ConnectionOutcome == [kind |-> "ConnectionError"]
OtherOutcome      == [kind |-> "ChunkedEncodingError"]
ResponseOutcome(status_code, body) ==
    [kind |-> "response", status_code |-> status_code, body |-> body]

(* response.json() *)
response_json(body, ownJsonError) ==
    IF body.valid THEN Ret(body.value)
    ELSE Raise(IF ownJsonError THEN "requests.JSONDecodeError" ELSE "json.JSONDecodeError",
               Text("Expecting value"))

(* Variant: every 2xx status counts as success *)
score_model_any_2xx(outcome, ownJsonError) ==
    CASE outcome.kind = "Timeout" ->
            Raise("Exception", Text("Request timed out. The model endpoint may be slow or unavailable."))
      [] outcome.kind = "ConnectionError" ->
            Raise("Exception", Text("Failed to connect to the model endpoint."))
      [] outcome.kind = "response" ->
            IF outcome.status_code \div 100 # 2
            THEN Raise("Exception", Msg("Request failed with status. Response:", <<>>,
                                        outcome.status_code, outcome.body.text))
            ELSE response_json(outcome.body, ownJsonError)
      [] OTHER -> Raise("requests." \o outcome.kind, Text("connection broken"))

(* lines 51-61: the except clauses, the status check and the parse *)
score_model(outcome, ownJsonError) ==
    CASE outcome.kind = "Timeout" ->
            Raise("Exception", Text("Request timed out. The model endpoint may be slow or unavailable."))
      [] outcome.kind = "ConnectionError" ->
            Raise("Exception", Text("Failed to connect to the model endpoint."))
      [] outcome.kind = "response" ->
            IF outcome.status_code # HTTP_OK
            THEN Raise("Exception", Msg("Request failed with status. Response:", <<>>,
                                        outcome.status_code, outcome.body.text))
            ELSE response_json(outcome.body, ownJsonError)
      [] OTHER -> Raise("requests." \o outcome.kind, Text("connection broken"))

----------------------------------------------------------------------------
(* predict *)

BAD_REQUEST == 400
SERVER_ERROR == 500

NetworkPrefix == "Network error while calling model endpoint"
GenericPrefix == "An error occurred"

Success(prediction_value) ==
    [status |-> HTTP_OK, json |-> [success |-> TRUE, prediction |-> prediction_value]]
Failure(status, prefix, msg) ==
    [status |-> status, json |-> [success |-> FALSE,
                                  error |-> [prefix |-> prefix, msg |-> msg]]]

(* The subclasses of requests.exceptions.RequestException *)
RequestExceptions ==
    {"requests.Timeout", "requests.ConnectionError", "requests.ChunkedEncodingError",
     "requests.JSONDecodeError"}

(* Variant: only the RequestException clause; anything else escapes the   *)
(* handler and the server answers with its own error page                  *)
except_network_only(exc) ==
    IF exc.cls \in RequestExceptions
    THEN Failure(SERVER_ERROR, NetworkPrefix, exc.msg)
    ELSE [status |-> SERVER_ERROR, json |-> [html |-> "Internal Server Error"]]

(* lines 100-103 *)
except_clauses(exc) ==
    IF exc.cls \in RequestExceptions
    THEN Failure(SERVER_ERROR, NetworkPrefix, exc.msg)
    ELSE Failure(BAD_REQUEST, GenericPrefix, exc.msg)

(* request.get_json() *)
get_json(req) ==
    IF req.parses THEN Ret(req.json)
    ELSE Raise("BadRequest", Text("400 Bad Request: Failed to decode JSON object"))

Returned(resp) == [returned |-> TRUE, response |-> resp]
Calling(body)  == [returned |-> FALSE, body |-> body]

(* Variant: the validation verdict is computed but not acted on *)
predict_request_unchecked(req, features) ==
    LET data == get_json(req)
    IN  IF data.raised THEN Returned(except_clauses(data))
        ELSE IF ~Truthy(data.value)
        THEN Returned(Failure(BAD_REQUEST, "", Text("No data provided in request body")))
        ELSE LET checked == validate_input_data(data.value, features)
             IN  IF checked.raised THEN Returned(except_clauses(checked))
                 ELSE LET df == build_dataframe_from_request(data.value, features)
                          body == IF df.raised THEN df ELSE score_model_body(df.value)
                      IN  IF body.raised THEN Returned(except_clauses(body))
                          ELSE Calling(body.value)

(* lines 78-87, up to the call of requests.post *)
predict_request(req, features) ==
    LET data == get_json(req)
    IN  IF data.raised THEN Returned(except_clauses(data))
        ELSE IF ~Truthy(data.value)
        THEN Returned(Failure(BAD_REQUEST, "", Text("No data provided in request body")))
        ELSE LET checked == validate_input_data(data.value, features)
             IN  IF checked.raised THEN Returned(except_clauses(checked))
                 ELSE IF ~checked.value.is_valid
                 THEN Returned(Failure(BAD_REQUEST, "", checked.value.error_message))
                 ELSE LET df == build_dataframe_from_request(data.value, features)
                          body == IF df.raised THEN df ELSE score_model_body(df.value)
                      IN  IF body.raised THEN Returned(except_clauses(body))
                          ELSE Calling(body.value)

(* lines 89-96 *)
extract_prediction(result) ==
    IF result.t = "dict" /\ "predictions" \in DOMAIN result.m
    THEN Index0(result.m["predictions"])
    ELSE IF result.t = "dict" /\ "data" \in DOMAIN result.m
    THEN Index0(result.m["data"])
    ELSE Ret(result)

(* lines 87-103, from the return of requests.post *)
predict_result(outcome, ownJsonError) ==
    LET result == score_model(outcome, ownJsonError)
        prediction_value ==
            IF result.raised THEN result ELSE extract_prediction(result.value)
    IN  IF prediction_value.raised THEN except_clauses(prediction_value)
        ELSE Success(prediction_value.value)

----------------------------------------------------------------------------
(* Inputs: what a client can send and what the endpoint can answer *)

Abc == <<"a", "b", "c">>

FeatureValues ==
    { JInt(34), BigInt, JBool(TRUE), Null,
      JStr(<<" ", "3", "4">>), JStr(Abc), JStr(<<"N", "a", "N">>),
      JStr(<<"-", "i", "n", "f">>) }

(* Mappings over any set of keys; the key outside the schema holds text *)
Records ==
    UNION { {m \in [K -> FeatureValues] : ExtraKey \in K => m[ExtraKey] = JStr(Abc)}
            : K \in SUBSET Keys }

NonMappings ==
    { Null, JBool(TRUE), JBool(FALSE), JInt(0), JInt(5), JStr(<<>>),
      JStr(<<"i", "m", "a", "g", "e">>), JList(<<>>), JList(<<JStr(Chars("age"))>>) }

Parsed(json) == [parses |-> TRUE, json |-> json]
Unparseable  == [parses |-> FALSE, json |-> Null]

Requests == {Parsed(JDict(m)) : m \in Records}
            \cup {Parsed(v) : v \in NonMappings}
            \cup {Unparseable}

Probabilities == JList(<<JInt(2), JInt(8)>>)

Results ==
    { JDict([predictions |-> JList(<<JInt(87)>>)]),
      JDict([predictions |-> JList(<<>>)]),
      JDict([predictions |-> JInt(1)]),
      JDict([predictions |-> Null]),
      JDict([predictions |-> JDict([label |-> JInt(1)])]),
      JDict([data |-> JList(<<Probabilities>>)]),
      JDict([data |-> JList(<<>>)]),
      JDict([predictions |-> JList(<<JInt(87)>>), data |-> JList(<<>>)]),
      JDict([foo |-> JInt(1)]) }

JsonBody(value) == [valid |-> TRUE, text |-> "json", value |-> value]
TextBody(text)  == [valid |-> FALSE, text |-> text, value |-> Null]

Unavailable == TextBody("Model unavailable")

(* Status 200 with every body; other statuses with a text and a JSON body *)
Responses ==
    {ResponseOutcome(HTTP_OK, b) : b \in {JsonBody(v) : v \in Results} \cup {Unavailable}}
    \cup {ResponseOutcome(c, b) : c \in {201, 503},
                                  b \in {Unavailable, JsonBody(JDict([foo |-> JInt(1)]))}}

----------------------------------------------------------------------------
(* The state machine: one /predict request at a time *)

NoRequest  == [none |-> TRUE]
NoPayload  == [none |-> TRUE]
NoOutcome  == [kind |-> "none"]
NoResponse == [status |-> 0, json |-> [pending |-> TRUE]]

Init ==
    /\ MODEL_FEATURES \in Schemas
    /\ jsonErrorIsRequestException \in BOOLEAN
    /\ pc = "idle"
    /\ request = NoRequest
    /\ posts = 0
    /\ payload = NoPayload
    /\ upstream = NoOutcome
    /\ response = NoResponse

(* POST /predict arrives: lines 77-87 up to the outbound call *)
Predict ==
    /\ pc = "idle"
    /\ \E req \in Requests :
         LET step == predict_request(req, MODEL_FEATURES)
         IN  /\ request' = req
             /\ IF step.returned
                THEN /\ pc' = "done"
                     /\ response' = step.response
                     /\ UNCHANGED <<posts, payload>>
                ELSE /\ pc' = "awaiting"
                     /\ posts' = posts + 1
                     /\ payload' = step.body
                     /\ UNCHANGED response
    /\ UNCHANGED <<MODEL_FEATURES, jsonErrorIsRequestException, upstream>>

(* requests.post returns or raises; the handler runs to its return *)
Complete(outcome) ==
    /\ pc = "awaiting"
    /\ upstream' = outcome
    /\ response' = predict_result(outcome, jsonErrorIsRequestException)
    /\ pc' = "done"
    /\ UNCHANGED <<MODEL_FEATURES, jsonErrorIsRequestException, request, posts, payload>>

UpstreamTimeout == Complete(TimeoutOutcome)

UpstreamConnectionError == Complete(ConnectionOutcome)

UpstreamOtherError == Complete(OtherOutcome)

UpstreamResponds ==
    \E outcome \in Responses : Complete(outcome)

(* The response is sent; the stateless server waits for the next request *)
NextRequest ==
    /\ pc = "done"
    /\ pc' = "idle"
    /\ request' = NoRequest
    /\ posts' = 0
    /\ payload' = NoPayload
    /\ upstream' = NoOutcome
    /\ response' = NoResponse
    /\ UNCHANGED <<MODEL_FEATURES, jsonErrorIsRequestException>>

Next ==
    \/ Predict
    \/ UpstreamTimeout
    \/ UpstreamConnectionError
    \/ UpstreamOtherError
    \/ UpstreamResponds
    \/ NextRequest

Spec == Init /\ [][Next]_vars

----------------------------------------------------------------------------
(* Vocabulary of the properties *)

Handling == pc \in {"awaiting", "done"}
Done     == pc = "done"

IsRecord == Handling /\ request.parses /\ request.json.t = "dict"

Position(feature) == CHOOSE i \in 1..Len(MODEL_FEATURES) : MODEL_FEATURES[i] = feature

Absent == {MODEL_FEATURES[i] : i \in 1..Len(MODEL_FEATURES)} \ DOMAIN request.json.m

(* The record is non-empty and validate_input_data returned (True, "") *)
Validated ==
    /\ IsRecord
    /\ Truthy(request.json)
    /\ validate_input_data(request.json, MODEL_FEATURES)
         = Ret([is_valid |-> TRUE, error_message |-> Text("")])

IsErrorEnvelope ==
    /\ DOMAIN response.json = {"success", "error"}
    /\ response.json.success = FALSE

IsGenericError ==
    /\ response.status = BAD_REQUEST
    /\ IsErrorEnvelope
    /\ response.json.error.prefix = GenericPrefix

IsNetworkError ==
    /\ response.status = SERVER_ERROR
    /\ IsErrorEnvelope
    /\ response.json.error.prefix = NetworkPrefix

IsSuccess ==
    /\ response.status = HTTP_OK
    /\ DOMAIN response.json = {"success", "prediction"}
    /\ response.json.success = TRUE

Row == payload.dataframe_split.data[1]

----------------------------------------------------------------------------
(* C1: when the outbound call fails because no connection could be        *)
(* established, /predict answers 500 with success=false and the 'Network   *)
(* error while calling model endpoint' message.                            *)
C1_ConnectionFailureIsNetworkError ==
    (Done /\ upstream = ConnectionOutcome) => IsNetworkError

(* C2: for every JSON value the endpoint returns with status 200, /predict *)
(* ends in the 200 success response carrying a prediction; the extraction  *)
(* step never causes an error response.                                    *)
C2_NormalizationNeverFails ==
    (Done /\ upstream.kind = "response" /\ upstream.status_code = HTTP_OK
          /\ upstream.body.valid)
        => IsSuccess

(* C3: a status-200 answer whose body is not valid JSON gives 400 with the *)
(* generic application error, not 500 with the network-error message.      *)
C3_MalformedResponseIsGenericError ==
    (Done /\ upstream.kind = "response" /\ upstream.status_code = HTTP_OK
          /\ ~upstream.body.valid)
        => IsGenericError

(* C4: for a record lacking at least one schema feature,                   *)
(* validate_input_data fails and its message names exactly the absent      *)
(* features, each once, in schema order, whatever the values of the        *)
(* present features and whatever the defaults; /predict answers 400.       *)
C4_MissingFeaturesNamedExactly ==
    (Done /\ IsRecord /\ Absent # {}) =>
        LET checked == validate_input_data(request.json, MODEL_FEATURES)
            names   == checked.value.error_message.names
        IN  /\ ~checked.raised
            /\ ~checked.value.is_valid
            /\ checked.value.error_message.text = "Missing required features"
            /\ {names[i] : i \in 1..Len(names)} = Absent
            /\ \A i, j \in 1..Len(names) :
                   i < j => Position(names[i]) < Position(names[j])
            /\ response.status = BAD_REQUEST
            /\ IsErrorEnvelope
            /\ Truthy(request.json) =>
                   response.json.error = [prefix |-> "", msg |-> checked.value.error_message]

C4_Witness ==
    /\ Done
    /\ MODEL_FEATURES = <<"bmi", "age">>
    /\ request = Parsed(JDict([bmi |-> JStr(Abc)]))
    /\ response.json.error.msg.names = <<"age">>

(* C5: for a record holding every schema feature and at least one value    *)
(* that cannot be coerced to a number, validate_input_data fails naming    *)
(* exactly the first such feature in schema order, and /predict answers    *)
(* 400 with that message.                                                  *)
C5_FirstInvalidFeatureNamed ==
    LET bad == {i \in 1..Len(MODEL_FEATURES) :
                    float(request.json.m[MODEL_FEATURES[i]]).raised}
    IN  (Done /\ IsRecord /\ Absent = {} /\ bad # {}) =>
            LET first == CHOOSE i \in bad : \A j \in bad : i <= j
            IN  response = Failure(BAD_REQUEST, "", Invalid(MODEL_FEATURES[first]))

(* C6: one /predict request makes at most one call of requests.post:       *)
(* exactly one when the body is non-empty and validation succeeds, none    *)
(* when the body is empty or absent or validation fails; a timeout, a      *)
(* connection failure or a non-200 status is never followed by another.    *)
C6_AtMostOnePost ==
    /\ posts <= 1
    /\ Handling => (posts = 1 <=> Validated)
    /\ (Done /\ upstream.kind # "none") => posts = 1

C6_Witness ==
    /\ Done
    /\ upstream = ResponseOutcome(503, Unavailable)
    /\ posts = 1

(* C7: every /predict request, whatever its body and whatever the upstream *)
(* outcome, ends with one well-formed envelope: status 200, 400 or 500;    *)
(* success=true with a prediction exactly when the status is 200,          *)
(* success=false with an error otherwise.                                  *)
C7_WellFormedEnvelope ==
    /\ ~Done => response = NoResponse
    /\ Done =>
        /\ response.status \in {HTTP_OK, BAD_REQUEST, SERVER_ERROR}
        /\ "success" \in DOMAIN response.json
        /\ IF response.status = HTTP_OK THEN IsSuccess ELSE IsErrorEnvelope

C7_Witness ==
    /\ Done
    /\ request = Parsed(JInt(5))
    /\ IsGenericError

(* C8: for a record that passes validate_input_data the payload sent has   *)
(* the schema's features as columns in schema order, index [0] and one row *)
(* whose i-th value is float() of the record's own value of the i-th       *)
(* feature: never a default, never a key outside the schema.               *)
C8_PayloadIsTheRecord ==
    Validated =>
        /\ posts = 1
        /\ DOMAIN payload = {"dataframe_split"}
        /\ payload.dataframe_split.columns = MODEL_FEATURES
        /\ payload.dataframe_split.index = <<0>>
        /\ Len(payload.dataframe_split.data) = 1
        /\ Len(Row) = Len(MODEL_FEATURES)
        /\ \A i \in 1..Len(MODEL_FEATURES) :
               Ret(Row[i]) = float(request.json.m[MODEL_FEATURES[i]])

C8_Witness ==
    /\ pc = "awaiting"
    /\ MODEL_FEATURES = <<"income", "age">>
    /\ request = Parsed(JDict([age |-> JStr(<<" ", "3", "4">>), income |-> JBool(TRUE),
                               zip |-> JStr(Abc)]))
    /\ Row = <<Fin(1), Fin(34)>>

(* C9: a timeout, or a response whose status is not 200 (other 2xx codes   *)
(* included), never gives success: /predict answers 400 with the generic   *)
(* error envelope, and for a non-200 response the message carries the      *)
(* status code and the upstream body text.                                 *)
C9_TimeoutAndHttpErrorAreGeneric ==
    /\ (Done /\ upstream = TimeoutOutcome) => IsGenericError
    /\ (Done /\ upstream.kind = "response" /\ upstream.status_code # HTTP_OK) =>
           /\ IsGenericError
           /\ response.json.error.msg.status = upstream.status_code
           /\ response.json.error.msg.body = upstream.body.text

C9_Witness ==
    /\ Done
    /\ upstream = ResponseOutcome(201, Unavailable)
    /\ response.json.error.msg.status = 201
    /\ response.json.error.msg.body = "Model unavailable"

NonFiniteSpellings == {JStr(<<"N", "a", "N">>), JStr(<<"-", "i", "n", "f">>)}

====
